---------------------------- MODULE Spec2Model ----------------------------
(***************************************************************************)
(* A model of cstyle-js (src/CStyle.js): the bit-level buffer primitives   *)
(* bufferExtract and insertBuffer, the CType / Struct descriptors with the *)
(* built-in cvar types, and PtrArray.                                      *)
(*                                                                         *)
(* Encoding of JavaScript values.  A Uint8Array is a sequence of numbers   *)
(* in 0..255, JavaScript index k being element k+1.  Other values are      *)
(* tagged by their JavaScript type:                                        *)
(*   [num |-> n]     a number                                              *)
(*   [big |-> n]     a BigInt                                              *)
(*   [bool |-> b]    a boolean                                             *)
(*   [str |-> c]     a string of one UTF-16 code unit c                    *)
(*   [null |-> TRUE] null                                                  *)
(*   [undef |-> TRUE] undefined                                            *)
(*   [obj |-> f]     an object, f a function from property names to values *)
(*   [err |-> m]     a thrown Error (the outcome of a call that threw)     *)
(***************************************************************************)
EXTENDS Integers, Sequences, FiniteSets, TLC

BYTE_LEN == 8
BYTE_SIZE == 256

-----------------------------------------------------------------------------
(* JavaScript arithmetic on numbers *)

\* n % m of JavaScript: the remainder takes the sign of the dividend
JsRem(n, m) == IF n >= 0 \/ n % m = 0 THEN n % m ELSE (n % m) - m

\* BigInt division: truncates towards zero
JsDiv(n, m) == IF n >= 0 \/ n % m = 0 THEN n \div m ELSE (n \div m) + 1

\* x << k and x >> k (>> is the arithmetic shift: floor division)
Shl(x, k) == x * (2 ^ k)
Shr(x, k) == x \div (2 ^ k)

\* a & b and a | b on non-negative operands
RECURSIVE BitAnd(_, _)
BitAnd(a, b) ==
    IF a = 0 \/ b = 0 THEN 0
    ELSE ((a % 2) * (b % 2)) + 2 * BitAnd(a \div 2, b \div 2)

RECURSIVE BitOr(_, _)
BitOr(a, b) ==
    IF a = 0 THEN b
    ELSE IF b = 0 THEN a
    ELSE (IF (a % 2) + (b % 2) > 0 THEN 1 ELSE 0) + 2 * BitOr(a \div 2, b \div 2)

\* the conversion a Uint8Array applies to a number stored in it
ToUint8(x) == x % BYTE_SIZE

Min(a, b) == IF a <= b THEN a ELSE b

\* Math.ceil(n / BYTE_LEN) for n >= 0
CeilBytes(n) == (n + BYTE_LEN - 1) \div BYTE_LEN

\* new Uint8Array(n): n zero bytes
Zeros(n) == [k \in 1..n |-> 0]

\* buffer[k] used as an operand of & or |: undefined (out of range) acts as 0
Elem(buffer, k) == IF k >= 0 /\ k < Len(buffer) THEN buffer[k + 1] ELSE 0

\* buffer[k] |= e: a store outside the typed array is ignored
OrAt(buffer, k, e) ==
    IF k >= 0 /\ k < Len(buffer)
    THEN [buffer EXCEPT ![k + 1] = ToUint8(BitOr(buffer[k + 1], e))]
    ELSE buffer

mod(n, m) == JsRem(JsRem(n, m) + m, m)

-----------------------------------------------------------------------------
(* bufferExtract *)

RECURSIVE bufferExtractLoop(_, _, _, _, _)
bufferExtractLoop(buffer, extract, i, j, endPtr) ==
    IF ~(j < endPtr) THEN extract
    ELSE LET di == IF mod(BYTE_LEN - i, BYTE_LEN) = 0 THEN 8 ELSE mod(BYTE_LEN - i, BYTE_LEN)
             dj == IF mod(BYTE_LEN - j, BYTE_LEN) = 0 THEN 8 ELSE mod(BYTE_LEN - j, BYTE_LEN)
             numBits == Min(Min(di, dj), endPtr - j)
             mask == Shl(Shl(1, numBits) - 1, dj - numBits)
             e0 == BitAnd(Elem(buffer, j \div BYTE_LEN), mask)
             e == IF di >= dj THEN Shl(e0, di - dj) ELSE Shr(e0, dj - di)
         IN  bufferExtractLoop(buffer, OrAt(extract, i \div BYTE_LEN, e),
                               i + numBits, j + numBits, endPtr)

\* bufferExtract with the extract filled from its first bit instead of from
\* bit (8 - size) mod 8
bufferExtractLeftJustified(buffer, startPtr, size) ==
    bufferExtractLoop(buffer, Zeros(CeilBytes(size)), 0, startPtr, startPtr + size)

bufferExtract(buffer, startPtr, size) ==
    bufferExtractLoop(buffer, Zeros(CeilBytes(size)),
                      mod(BYTE_LEN - size, BYTE_LEN), startPtr, startPtr + size)

-----------------------------------------------------------------------------
(* insertBuffer: the value of b1 after the call *)

\* insertBuffer taking d0 bits at each step, whatever room is left in the
\* current byte of b1
RECURSIVE insertBufferWholeChunk(_, _, _, _)
insertBufferWholeChunk(b0, b1, i, j) ==
    IF ~(j < Len(b0) * BYTE_LEN) THEN b1
    ELSE LET d0 == BYTE_LEN - (j % BYTE_LEN)
             d1 == BYTE_LEN - (i % BYTE_LEN)
             numBits == d0
             byte == Elem(b0, j \div BYTE_LEN)
             extract == BitAnd(byte, (Shl(1, d0) - 1) - (Shl(1, d0 - numBits) - 1))
             ins == IF (d1 - d0) >= 0 THEN Shl(extract, d1 - d0) ELSE Shr(extract, d0 - d1)
         IN  insertBufferWholeChunk(b0, OrAt(b1, i \div BYTE_LEN, ins),
                                    i + numBits, j + numBits)

RECURSIVE insertBuffer(_, _, _, _)
insertBuffer(b0, b1, i, j) ==
    IF ~(j < Len(b0) * BYTE_LEN) THEN b1
    ELSE LET d0 == BYTE_LEN - (j % BYTE_LEN)
             d1 == BYTE_LEN - (i % BYTE_LEN)
             numBits == Min(d0, d1)
             byte == Elem(b0, j \div BYTE_LEN)
             extract == BitAnd(byte, (Shl(1, d0) - 1) - (Shl(1, d0 - numBits) - 1))
             ins == IF (d1 - d0) >= 0 THEN Shl(extract, d1 - d0) ELSE Shr(extract, d0 - d1)
         IN  insertBuffer(b0, OrAt(b1, i \div BYTE_LEN, ins), i + numBits, j + numBits)

-----------------------------------------------------------------------------
(* CType, Struct and the built-in types of cvar *)

\* new CType(name, size, ...): serialize and deserialize are selected by name
CType(name, size) ==
    [name |-> name, size |-> size, members |-> <<>>, isStruct |-> FALSE]

\* members.reduce((size, member) => size + member[1].size, 0)
RECURSIVE membersSize(_)
membersSize(members) ==
    IF members = <<>> THEN 0
    ELSE members[1][2].size + membersSize(Tail(members))

\* new Struct(name, members): members is a sequence of <<memberName, CType>>
Struct(name, members) ==
    [name |-> name, size |-> membersSize(members), members |-> members, isStruct |-> TRUE]

cvar ==
    [uint4   |-> CType("uint4", 4),
     uint8   |-> CType("uint8", 8),
     int32   |-> CType("int32", 32),
     bigint  |-> CType("bigint", 64),
     char    |-> CType("char", 16),
     boolean |-> CType("boolean", 1),
     null    |-> CType("null", 1)]

\* A CType declared by a user of the library (README, "Declaring Custom Types"):
\* an unsigned integer of w bits whose serialize returns the ceil(w/8) bytes of
\* the big-endian encoding and whose deserialize reads them back.
CustomUint(w) == CType("custom", w)

\* x << k of JavaScript for x in 0..255: the result wraps to a signed 32-bit integer
JsShl32(x, k) ==
    LET m == 2 ^ (32 - k)
        r == x % m
    IN  IF 2 * r >= m THEN (r - m) * (2 ^ k) ELSE r * (2 ^ k)

\* the default serialize of CType: new Uint8Array([data % BYTE_SIZE])
defaultSerialize(data) == << ToUint8(JsRem(data.num, BYTE_SIZE)) >>

\* the default deserialize of CType: bytes[0]
defaultDeserialize(bytes) == [num |-> bytes[1]]

int32Serialize(data) ==
    << ToUint8(JsRem(Shr(data.num, BYTE_LEN * 3), BYTE_SIZE)),
       ToUint8(JsRem(Shr(data.num, BYTE_LEN * 2), BYTE_SIZE)),
       ToUint8(JsRem(Shr(data.num, BYTE_LEN * 1), BYTE_SIZE)),
       ToUint8(JsRem(data.num, BYTE_SIZE)) >>

int32Deserialize(bytes) ==
    [num |-> bytes[4] + JsShl32(bytes[3], BYTE_LEN * 1)
                      + JsShl32(bytes[2], BYTE_LEN * 2)
                      + JsShl32(bytes[1], BYTE_LEN * 3)]

\* for (let i = 7; i >= 0; i--) { serialized[i] = Number(bigint % m); bigint = bigint / m }
RECURSIVE bigintSerializeLoop(_, _, _)
bigintSerializeLoop(serialized, bigint, i) ==
    IF ~(i >= 0) THEN serialized
    ELSE bigintSerializeLoop(
             [serialized EXCEPT ![i + 1] = ToUint8(JsRem(bigint, BYTE_SIZE))],
             JsDiv(bigint, BYTE_SIZE), i - 1)

bigintSerialize(data) == bigintSerializeLoop(Zeros(8), data.big, 7)

\* for (let i = bytes.length - 1; i >= 0; i--, j++) bigint += BigInt(bytes[i]) << BigInt(j * BYTE_LEN)
RECURSIVE bigintDeserializeLoop(_, _, _, _)
bigintDeserializeLoop(bytes, bigint, i, j) ==
    IF ~(i >= 0) THEN bigint
    ELSE bigintDeserializeLoop(bytes,
             \* 0n << k is 0n; written apart so that no power of two beyond
             \* TLC's 32-bit integers is computed for a zero byte
             bigint + (IF bytes[i + 1] = 0 THEN 0 ELSE Shl(bytes[i + 1], j * BYTE_LEN)),
             i - 1, j + 1)

bigintDeserialize(bytes) == [big |-> bigintDeserializeLoop(bytes, 0, Len(bytes) - 1, 0)]

charSerialize(data) ==
    << ToUint8(Shr(data.str, BYTE_LEN)), ToUint8(JsRem(data.str, BYTE_SIZE)) >>

\* String.fromCharCode(n) keeps the low 16 bits of n
charDeserialize(bytes) == [str |-> (Shl(bytes[1], BYTE_LEN) + bytes[2]) % 65536]

booleanSerialize(data) == << IF data.bool THEN 1 ELSE 0 >>

booleanDeserialize(bytes) == [bool |-> bytes[1] # 0]

nullSerialize(data) == << 0 >>

nullDeserialize(bytes) == [null |-> TRUE]

RECURSIVE customSerializeLoop(_, _, _)
customSerializeLoop(serialized, v, i) ==
    IF ~(i >= 0) THEN serialized
    ELSE customSerializeLoop([serialized EXCEPT ![i + 1] = ToUint8(v)],
                             Shr(v, BYTE_LEN), i - 1)

customSerialize(type, data) ==
    customSerializeLoop(Zeros(CeilBytes(type.size)), data.num, CeilBytes(type.size) - 1)

RECURSIVE customDeserializeLoop(_, _, _)
customDeserializeLoop(bytes, acc, i) ==
    IF i > Len(bytes) THEN acc
    ELSE customDeserializeLoop(bytes, acc * BYTE_SIZE + bytes[i], i + 1)

customDeserialize(bytes) == [num |-> customDeserializeLoop(bytes, 0, 1)]

IsErr(v) == "err" \in DOMAIN v

RECURSIVE serialize(_, _)
RECURSIVE deserialize(_, _)

\* the j argument Struct.serialize passes to insertBuffer for a member
memberSourceOffset(memberSize) == mod(BYTE_LEN - memberSize, BYTE_LEN)

\* members.forEach((member) => { insertBuffer(...); i += member[1].size })
RECURSIVE structSerializeLoop(_, _, _, _, _)
structSerializeLoop(members, object, serialized, i, k) ==
    IF k > Len(members) THEN serialized
    ELSE LET member == members[k]
         IN  structSerializeLoop(members, object,
                 insertBuffer(serialize(member[2], object.obj[member[1]]),
                              serialized, i,
                              memberSourceOffset(member[2].size)),
                 i + member[2].size, k + 1)

\* this.serialize of a Struct
structSerialize(type, object) ==
    structSerializeLoop(type.members, object, Zeros(CeilBytes(type.size)), 0, 1)

\* the for loop of toObject; j counts members from 1
RECURSIVE toObjectLoop(_, _, _, _, _)
toObjectLoop(members, buffer, obj, i, j) ==
    IF ~(j <= Len(members)) THEN [obj |-> obj]
    ELSE LET memberName == members[j][1]
             memberType == members[j][2]
         IN  IF i + memberType.size >= Len(buffer) * BYTE_LEN
             THEN [err |-> "outside buffer range", member |-> memberName, bit |-> i]
             ELSE LET v == deserialize(memberType,
                                       bufferExtract(buffer, i, memberType.size))
                  IN  IF IsErr(v) THEN v
                      ELSE toObjectLoop(members, buffer,
                                        (memberName :> v) @@ obj,
                                        i + memberType.size, j + 1)

toObject(struct, buffer, ptr) == toObjectLoop(struct.members, buffer, <<>>, ptr, 1)

serialize(type, data) ==
    IF type.isStruct THEN structSerialize(type, data)
    ELSE CASE type.name = "int32"   -> int32Serialize(data)
           [] type.name = "bigint"  -> bigintSerialize(data)
           [] type.name = "char"    -> charSerialize(data)
           [] type.name = "boolean" -> booleanSerialize(data)
           [] type.name = "null"    -> nullSerialize(data)
           [] type.name = "custom"  -> customSerialize(type, data)
           [] OTHER                 -> defaultSerialize(data)

deserialize(type, bytes) ==
    IF type.isStruct THEN toObject(type, bytes, 0)
    ELSE CASE type.name = "int32"   -> int32Deserialize(bytes)
           [] type.name = "bigint"  -> bigintDeserialize(bytes)
           [] type.name = "char"    -> charDeserialize(bytes)
           [] type.name = "boolean" -> booleanDeserialize(bytes)
           [] type.name = "null"    -> nullDeserialize(bytes)
           [] type.name = "custom"  -> customDeserialize(bytes)
           [] OTHER                 -> defaultDeserialize(bytes)

-----------------------------------------------------------------------------
(* PtrArray: self is [length, type, buffer] *)

\* setBuffer(buffer, pad): [buffer |-> the new this.buffer], or the Error thrown.
\* The argument is [undef |-> TRUE] (no argument), [bytes |-> a Uint8Array] or
\* [other |-> TRUE] (any other value).
setBuffer(self, buffer, pad) ==
    LET expectedLength == CeilBytes(self.length * self.type.size)
    IN  IF "undef" \in DOMAIN buffer THEN [buffer |-> Zeros(expectedLength)]
        ELSE IF "bytes" \notin DOMAIN buffer
             THEN [err |-> "Given buffer was not a Uint8Array"]
        ELSE LET b == buffer.bytes
             IN  IF pad
                 THEN IF Len(b) > expectedLength
                      THEN [buffer |-> SubSeq(b, 1, expectedLength)]
                      ELSE IF Len(b) < expectedLength
                      THEN [buffer |-> [k \in 1..expectedLength |->
                                           IF k <= Len(b) THEN b[k] ELSE 0]]
                      ELSE [buffer |-> b]
                 ELSE IF Len(b) < expectedLength
                      THEN [err |-> "Given buffer was not of expected length"]
                      ELSE [buffer |-> b]

\* get(i): the value returned ([undef |-> TRUE] for a bare return) or the Error thrown
get(self, i) ==
    IF i < 0 \/ ~(i < self.length) THEN [undef |-> TRUE]
    ELSE IF self.type.isStruct
         THEN toObject(self.type, self.buffer, i * self.type.size)
         ELSE deserialize(self.type,
                          bufferExtract(self.buffer, i * self.type.size, self.type.size))

\* the j argument PtrArray.set passes to insertBuffer
setSourceOffset(typeSize) == IF typeSize < 8 THEN mod(-typeSize, BYTE_LEN) ELSE 0

\* set with the upper bound test off by one: index length is written too
setUpToLength(self, i, item) ==
    IF i < 0 \/ ~(i <= self.length) THEN self.buffer
    ELSE insertBuffer(serialize(self.type, item), self.buffer, i * self.type.size,
                      setSourceOffset(self.type.size))

\* set(i, item): this.buffer after the call
set(self, i, item) ==
    IF i < 0 \/ ~(i < self.length) THEN self.buffer
    ELSE insertBuffer(serialize(self.type, item), self.buffer, i * self.type.size,
                      setSourceOffset(self.type.size))

-----------------------------------------------------------------------------
(* State *)

VARIABLES
    \* a call of bufferExtract followed by a call of insertBuffer
    src,        \* the buffer handed to bufferExtract
    startPtr,   \* its startPtr argument
    size,       \* its size argument
    extract,    \* the Uint8Array it returned
    b1,         \* the destination buffer of insertBuffer
    bitsOp,     \* the last call made: "none", "extract", "insert", "insertAligned"
    \* a serialize call followed by a deserialize call on one type
    ctype,      \* the CType or Struct
    data,       \* the value handed to serialize
    bytes,      \* the Uint8Array serialize returned
    result,     \* what deserialize returned or threw
    phase,      \* "idle", "serialized", "deserialized"
    \* one PtrArray
    length,     \* this.length
    type,       \* this.type
    buffer,     \* this.buffer
    ret,        \* what the last call returned or threw
    lastOp,     \* the last call made and its arguments
    shadow,     \* history: per index, the item of the last in-range set call
    nsets,      \* history: in-range set calls since construction (0, 1, 2 = more)
    rebuf       \* history: setBuffer was called since construction

bitsVars == <<src, startPtr, size, extract, b1, bitsOp>>
typeVars == <<ctype, data, bytes, result, phase>>
arrayVars == <<length, type, buffer, ret, lastOp, shadow, nsets, rebuf>>
vars == <<src, startPtr, size, extract, b1, bitsOp,
          ctype, data, bytes, result, phase,
          length, type, buffer, ret, lastOp, shadow, nsets, rebuf>>

undefined == [undef |-> TRUE]

BitsIdle ==
    /\ src = <<>> /\ startPtr = 0 /\ size = 0 /\ extract = <<>> /\ b1 = <<>>
    /\ bitsOp = "none"

TypesIdle ==
    /\ ctype = cvar.null /\ data = undefined /\ bytes = <<>> /\ result = undefined
    /\ phase = "idle"

ArrayIdle ==
    /\ length = 0 /\ type = cvar.null /\ buffer = <<>> /\ ret = undefined
    /\ lastOp = [op |-> "none"] /\ shadow = <<>> /\ nsets = 0 /\ rebuf = FALSE

-----------------------------------------------------------------------------
(* The bit buffer primitives: bufferExtract, then insertBuffer into a zeroed *)
(* buffer of the same size                                                   *)

MaxBufLen == 2

\* the byte values buffers are filled with
ByteSamples == {0, 1, 60, 128, 165, 255}

RECURSIVE SeqsOf(_, _)
SeqsOf(S, n) ==
    IF n = 0 THEN {<<>>}
    ELSE {Append(q, x) : q \in SeqsOf(S, n - 1), x \in S}

Buffers == UNION {SeqsOf(ByteSamples, n) : n \in 1..MaxBufLen}

InitBits ==
    /\ src \in Buffers
    /\ startPtr = 0 /\ size = 0 /\ extract = <<>>
    /\ b1 = Zeros(Len(src))
    /\ bitsOp = "none"
    /\ TypesIdle /\ ArrayIdle

\* extract = bufferExtract(src, p, w), within the buffer; B2 starts zeroed
BufferExtract(p, w) ==
    /\ bitsOp = "none"
    /\ p + w <= Len(src) * BYTE_LEN
    /\ extract' = bufferExtract(src, p, w)
    /\ startPtr' = p
    /\ size' = w
    /\ b1' = Zeros(Len(src))
    /\ bitsOp' = "extract"
    /\ UNCHANGED <<src, typeVars, arrayVars>>

\* insertBuffer(extract, b1, startPtr): j is left at its default 0
InsertBuffer ==
    /\ bitsOp = "extract"
    /\ b1' = insertBuffer(extract, b1, startPtr, 0)
    /\ bitsOp' = "insert"
    /\ UNCHANGED <<src, startPtr, size, extract, typeVars, arrayVars>>

\* insertBuffer(extract, b1, startPtr, mod(BYTE_LEN - size, BYTE_LEN)):
\* the call Struct.serialize makes for a member of that size
InsertBufferAligned ==
    /\ bitsOp = "extract"
    /\ b1' = insertBuffer(extract, b1, startPtr, memberSourceOffset(size))
    /\ bitsOp' = "insertAligned"
    /\ UNCHANGED <<src, startPtr, size, extract, typeVars, arrayVars>>

NextBits ==
    \/ \E p \in 0..(MaxBufLen * BYTE_LEN - 1), w \in 1..(MaxBufLen * BYTE_LEN) :
           BufferExtract(p, w)
    \/ InsertBuffer
    \/ InsertBufferAligned

SpecBits == InitBits /\ [][NextBits]_vars

\* bit n of a buffer, bit 0 being the most significant bit of byte 0
Bit(buf, n) == (buf[(n \div BYTE_LEN) + 1] \div (2 ^ (7 - (n % BYTE_LEN)))) % 2

Pad(w) == (BYTE_LEN - (w % BYTE_LEN)) % BYTE_LEN

\* the bytes hold exactly bits p .. p+w-1 of buf, right-justified
ExtractOf(ex, buf, p, w) ==
    /\ Len(ex) = (w + 7) \div 8
    /\ \A k \in 0..(w - 1) : Bit(ex, Pad(w) + k) = Bit(buf, p + k)
    /\ \A k \in 0..(Pad(w) - 1) : Bit(ex, k) = 0

\* dst holds bits [p, p+w) of buf and is zero everywhere else
RoundTrip(dst, buf, p, w) ==
    /\ Len(dst) = Len(buf)
    /\ \A n \in 0..(Len(buf) * BYTE_LEN - 1) :
           Bit(dst, n) = IF n >= p /\ n < p + w THEN Bit(buf, n) ELSE 0

\* C3: bufferExtract(B, p, w), for p + w <= 8 * B.length, returns ceil(w/8)
\* bytes that hold bits p .. p+w-1 of B right-justified (the same big-endian
\* integer), with the (8 - w) mod 8 leading padding bits zero, and leaves B
\* as it was.
C3_ExtractExact ==
    [][bitsOp' = "extract" =>
          /\ ExtractOf(extract', src, startPtr', size')
          /\ src' = src]_vars

C3_Witness ==
    /\ bitsOp = "extract" /\ startPtr = 3 /\ size = 7
    /\ src = <<165, 60>> /\ extract = <<20>>

\* C4 as stated: with the source offset left at 0, inserting the extract at p
\* into a zeroed buffer reproduces bits [p, p+w) and leaves the rest zero.
C4_RoundTripDefaultOffset ==
    bitsOp = "insert" => RoundTrip(b1, src, startPtr, size)

\* C4 amended: the round trip holds when insertBuffer is given the source
\* offset (8 - w) mod 8, which is the default 0 exactly when w is a multiple
\* of 8.
C4_RoundTripAligned ==
    /\ bitsOp = "insertAligned" => RoundTrip(b1, src, startPtr, size)
    /\ (bitsOp = "insert" /\ size % BYTE_LEN = 0) => RoundTrip(b1, src, startPtr, size)

C4_Witness ==
    /\ bitsOp = "insertAligned" /\ startPtr = 3 /\ size = 7
    /\ src = <<165, 60>> /\ b1 = <<5, 0>>

-----------------------------------------------------------------------------
(* Types: serialize a value of a type, then deserialize the bytes *)

\* Structs of built-in scalar members
pair16 == Struct("pair16", << <<"a", cvar.uint8>>, <<"b", cvar.uint8>> >>)

mixed13 ==
    Struct("mixed13",
           << <<"a", cvar.uint4>>, <<"b", cvar.uint8>>, <<"c", cvar.boolean>> >>)

\* the struct of the README
product ==
    Struct("product",
           << <<"itemId", cvar.int32>>, <<"cost", cvar.int32>>,
              <<"onsale", cvar.boolean>> >>)

inner4 == Struct("inner4", << <<"a", cvar.uint4>> >>)

inner8 == Struct("inner8", << <<"hi", cvar.uint4>>, <<"lo", cvar.uint4>> >>)

\* a Struct with a Struct member between two scalar members
Parent(inner) ==
    Struct("parent", << <<"x", cvar.uint4>>, <<"in", inner>>, <<"y", cvar.uint4>> >>)

FlatStructs == {pair16, mixed13, product, inner4, inner8}

NestedStructs == {Parent(inner4), Parent(inner8), Parent(mixed13)}

Int32Min == -2147483647 - 1

\* the values of a scalar type that the runs serialize; those of bigint stay
\* below 2^23 in magnitude, so that the sum deserialize forms fits TLC's integers
ScalarValues(t) ==
    CASE t.name = "uint4"   -> {[num |-> n] : n \in 0..15}
      [] t.name = "uint8"   -> {[num |-> n] : n \in {0, 1, 127, 128, 165, 255}}
      [] t.name = "int32"   -> {[num |-> n] : n \in {Int32Min, -65536, -256, -1, 0, 1,
                                                     50, 255, 256, 2147483647}}
      [] t.name = "bigint"  -> {[big |-> n] : n \in {-65536, -257, -1, 0, 1, 255, 256,
                                                     65535, 8388607}}
      [] t.name = "char"    -> {[str |-> c] : c \in {0, 65, 255, 256, 9731, 65535}}
      [] t.name = "boolean" -> {[bool |-> b] : b \in BOOLEAN}
      [] t.name = "null"    -> {[null |-> TRUE]}

\* the values a member of a struct takes
MemberValues(t) ==
    CASE t.name = "uint4"   -> {[num |-> n] : n \in {0, 9, 15}}
      [] t.name = "uint8"   -> {[num |-> n] : n \in {0, 165, 255}}
      [] t.name = "int32"   -> {[num |-> n] : n \in {-1, 0, 1, 50}}
      [] OTHER              -> ScalarValues(t)

\* the objects with one property per member
RECURSIVE Objects(_)
Objects(members) ==
    IF members = <<>> THEN {<<>>}
    ELSE LET t == members[1][2]
             vs == IF t.isStruct THEN {[obj |-> o] : o \in Objects(t.members)}
                   ELSE MemberValues(t)
         IN  {(members[1][1] :> v) @@ o : v \in vs, o \in Objects(Tail(members))}

Values(t) ==
    IF t.isStruct THEN {[obj |-> o] : o \in Objects(t.members)} ELSE ScalarValues(t)

ScalarTypes ==
    {cvar.uint4, cvar.uint8, cvar.int32, cvar.bigint, cvar.char, cvar.boolean, cvar.null}

InitTypes == TypesIdle /\ BitsIdle /\ ArrayIdle

\* bytes = t.serialize(v)
Serialize(t, v) ==
    /\ phase = "idle"
    /\ ctype' = t
    /\ data' = v
    /\ bytes' = serialize(t, v)
    /\ phase' = "serialized"
    /\ UNCHANGED <<result, bitsVars, arrayVars>>

\* result = ctype.deserialize(bytes)
Deserialize ==
    /\ phase = "serialized"
    /\ result' = deserialize(ctype, bytes)
    /\ phase' = "deserialized"
    /\ UNCHANGED <<ctype, data, bytes, bitsVars, arrayVars>>

NextTypes ==
    \/ \E t \in ScalarTypes \union FlatStructs \union NestedStructs :
           \E v \in Values(t) : Serialize(t, v)
    \/ Deserialize

SpecTypes == InitTypes /\ [][NextTypes]_vars

\* C2: for every built-in scalar type of cvar and every value representable in
\* its bit width, negative values of int32 and bigint included,
\* deserialize(serialize(v)) equals v.
C2_ScalarRoundTrip ==
    (phase = "deserialized" /\ ctype \in ScalarTypes) => result = data

\* C5: for every Struct of built-in scalar members, whatever its total bit
\* width, deserialize(serialize(r)) returns a record equal to r.
C5_StructRoundTrip ==
    (phase = "deserialized" /\ ctype \in FlatStructs) => result = data

\* the bits a value occupies, in order: a scalar's are the low size bits of its
\* serialization, a struct's are its members' one after the other
RECURSIVE FlatBits(_, _)
RECURSIVE MembersBits(_, _)
FlatBits(t, v) ==
    IF t.isStruct THEN MembersBits(t.members, v.obj)
    ELSE [k \in 1..t.size |-> Bit(serialize(t, v), Pad(t.size) + k - 1)]

MembersBits(members, o) ==
    IF members = <<>> THEN <<>>
    ELSE FlatBits(members[1][2], o[members[1][1]]) \o MembersBits(Tail(members), o)

\* C7: a parent Struct's serialize places a nested struct's W bits, for any W,
\* contiguously at the member's bit offset, the nested members in declared
\* order at their own offsets, and leaves the neighbouring members intact.
C7_NestedLayout ==
    (phase = "serialized" /\ ctype \in NestedStructs) =>
        \A n \in 0..(ctype.size - 1) : Bit(bytes, n) = FlatBits(ctype, data)[n + 1]

-----------------------------------------------------------------------------
(* PtrArray: an array is constructed, then setBuffer, set and get are called *)

MaxLength == 2

ArrayScalarTypes ==
    {cvar.boolean, cvar.uint4, cvar.uint8, cvar.char, cvar.int32, CustomUint(12)}

ArrayStructTypes == {inner8, mixed13}

\* three values of each type, the first being the all-zero one
RECURSIVE Samples(_)
RECURSIVE SampleObject(_, _)
Samples(t) ==
    IF t.isStruct THEN [k \in 1..3 |-> [obj |-> SampleObject(t.members, k)]]
    ELSE CASE t.name = "uint4"   -> <<[num |-> 0], [num |-> 9], [num |-> 15]>>
           [] t.name = "uint8"   -> <<[num |-> 0], [num |-> 165], [num |-> 255]>>
           [] t.name = "int32"   -> <<[num |-> 0], [num |-> 50], [num |-> -1]>>
           [] t.name = "char"    -> <<[str |-> 0], [str |-> 65], [str |-> 9731]>>
           [] t.name = "boolean" -> <<[bool |-> FALSE], [bool |-> TRUE], [bool |-> TRUE]>>
           [] t.name = "custom"  -> <<[num |-> 0], [num |-> 2 ^ (t.size - 1) + 1],
                                      [num |-> (2 ^ t.size) - 1]>>

SampleObject(members, k) ==
    IF members = <<>> THEN <<>>
    ELSE (members[1][1] :> Samples(members[1][2])[k]) @@ SampleObject(Tail(members), k)

Items(t) == {Samples(t)[k] : k \in 1..3}

\* what get returns for an element never written
ZeroDefault(t) == Samples(t)[1]

\* the Uint8Array arguments of setBuffer: empty, one byte shorter than expected,
\* of the expected length and one byte longer, each byte different from its
\* neighbours and from zero
InputBuffers(n, t) ==
    LET expectedLength == CeilBytes(n * t.size)
    IN  {[k \in 1..len |-> ((16 * k) % 255) + 1] :
            len \in {0, expectedLength - 1, expectedLength, expectedLength + 1} \ {-1}}

SetBufferArgs(n, t) ==
    {undefined, [other |-> TRUE]} \union {[bytes |-> b] : b \in InputBuffers(n, t)}

Indices == (-1)..MaxLength

this == [length |-> length, type |-> type, buffer |-> buffer]

\* new PtrArray(n, t): the constructor ends with this.setBuffer()
InitArray ==
    /\ length \in 0..MaxLength
    /\ type \in ArrayScalarTypes \union ArrayStructTypes
    /\ buffer = setBuffer([length |-> length, type |-> type, buffer |-> <<>>],
                          undefined, TRUE).buffer
    /\ ret = undefined
    /\ lastOp = [op |-> "new"]
    /\ shadow = [i \in 0..(length - 1) |-> undefined]
    /\ nsets = 0
    /\ rebuf = FALSE
    /\ BitsIdle /\ TypesIdle

\* setBuffer(arg, pad); the history of set calls ends with it
SetBuffer(arg, pad) ==
    LET r == setBuffer(this, arg, pad)
    IN  /\ buffer' = IF IsErr(r) THEN buffer ELSE r.buffer
        /\ ret' = IF IsErr(r) THEN r ELSE undefined
        /\ lastOp' = [op |-> "setBuffer", arg |-> arg, pad |-> pad]
        /\ shadow' = [i \in 0..(length - 1) |-> undefined]
        /\ nsets' = 0
        /\ rebuf' = TRUE
        /\ UNCHANGED <<length, type, bitsVars, typeVars>>

\* set(i, item)
Set(i, item) ==
    /\ buffer' = set(this, i, item)
    /\ ret' = undefined
    /\ lastOp' = [op |-> "set", i |-> i]
    /\ IF i \in 0..(length - 1) /\ ~rebuf
       THEN /\ shadow' = [shadow EXCEPT ![i] = item]
            /\ nsets' = Min(nsets + 1, 2)
       ELSE UNCHANGED <<shadow, nsets>>
    /\ UNCHANGED <<length, type, rebuf, bitsVars, typeVars>>

\* get(i)
Get(i) ==
    /\ ret' = get(this, i)
    /\ lastOp' = [op |-> "get", i |-> i]
    /\ UNCHANGED <<length, type, buffer, shadow, nsets, rebuf, bitsVars, typeVars>>

NextArray ==
    \/ \E arg \in SetBufferArgs(length, type), pad \in BOOLEAN : SetBuffer(arg, pad)
    \/ \E i \in Indices, item \in Items(type) : Set(i, item)
    \/ \E i \in Indices : Get(i)

SpecArray == InitArray /\ [][NextArray]_vars

\* C1: on a newly constructed array of a scalar type of any bit width w, after
\* one set(i, v) the bits [i*w, (i+1)*w) of the buffer hold the w-bit encoding
\* of v, get(i) returns v and every other get(j) returns the zero default; and
\* set passes insertBuffer the same source offset as a Struct member write.
C1_SetThenGet ==
    (type \in ArrayScalarTypes /\ ~rebuf /\ nsets = 1) =>
        /\ setSourceOffset(type.size) = memberSourceOffset(type.size)
        /\ \A i \in 0..(length - 1) :
               shadow[i] # undefined =>
                   /\ \A k \in 0..(type.size - 1) :
                          Bit(buffer, i * type.size + k) = FlatBits(type, shadow[i])[k + 1]
                   /\ get(this, i) = shadow[i]
                   /\ \A j \in (0..(length - 1)) \ {i} : get(this, j) = ZeroDefault(type)

\* C6: reading a struct fails with the range error if and only if a member
\* would end beyond the last bit of the buffer; a member ending exactly on the
\* last bit is read, so get(i) on a struct-typed array returns a record for
\* every i in [0, length).
C6_RangeErrorOnlyPastEnd ==
    type \in ArrayStructTypes =>
        \A i \in 0..(length - 1) :
            /\ IsErr(get(this, i)) <=>
                   (i * type.size + type.size > Len(buffer) * BYTE_LEN)
            /\ "obj" \in DOMAIN get(this, i)

\* C8: the buffer always has length ceil(length * type.size / 8); after a
\* setBuffer with pad = true its leading min(input length, expected length)
\* bytes are the input's and the bytes added are zero.
C8_BufferLength ==
    /\ Len(buffer) = CeilBytes(length * type.size)
    /\ (lastOp.op = "setBuffer" /\ lastOp.pad /\ "bytes" \in DOMAIN lastOp.arg) =>
           \A k \in 1..Len(buffer) :
               buffer[k] = IF k <= Len(lastOp.arg.bytes) THEN lastOp.arg.bytes[k] ELSE 0

\* C9: with an index that is negative or >= length, get returns undefined
\* without failing and set leaves the buffer byte for byte as it was (and with
\* it every in-range get(j), which reads nothing but length, type and buffer).
C9_OutOfRangeIsNoOp ==
    [][(lastOp'.op \in {"get", "set"} /\ ~(lastOp'.i >= 0 /\ lastOp'.i < length)) =>
          /\ buffer' = buffer
          /\ length' = length /\ type' = type
          /\ ret' = undefined]_vars

C9_Witness ==
    /\ lastOp.op = "set" /\ lastOp.i = length /\ length > 0
    /\ \E k \in 1..Len(buffer) : buffer[k] # 0
    /\ Len(buffer) * BYTE_LEN > length * type.size

\* C10: for an array of boolean, uint4 or uint8, after any sequence of in-range
\* set calls get(i) returns the item most recently set at i, or the zero
\* default if i was never set.
C10_LastWriteWins ==
    (type \in {cvar.boolean, cvar.uint4, cvar.uint8} /\ ~rebuf) =>
        \A i \in 0..(length - 1) :
            get(this, i) = IF shadow[i] = undefined THEN ZeroDefault(type) ELSE shadow[i]

=============================================================================
